---------------------------- MODULE Spec2Model ----------------------------
(***************************************************************************)
(* A model of the notebook epitope/mhci_lesson.ipynb: the three peptide    *)
(* encoders, the ROC-AUC scoring, the linearized affinity target, the      *)
(* train-and-save loop and the batch evaluation loop.                      *)
(*                                                                         *)
(* The notebook is a sequence of cells; each part is modelled by its own   *)
(* specification over its own variables (SpecEnc, SpecAuc, SpecTrain,      *)
(* SpecEval); the variables of the other parts are held at an idle value.  *)
(***************************************************************************)
EXTENDS Integers, Sequences, FiniteSets, TLC

VARIABLES
    codes,      \* global list `codes` (the 20-letter alphabet)
    nlf,        \* global table `nlf`: amino acid -> column of NlfWidth features
    blosum,     \* global table `blosum`: amino acid -> column of BlosumWidth scores
    pep,        \* global `pep`, the sample peptide
    seq,        \* argument of the last encoder call
    fn,         \* name of the encoder called last
    e,          \* value returned by the last encoder call
    memo,       \* value each encoder returned for `pep` when its cell first ran
    caller,     \* function that calls auc_score
    ic50,       \* measured IC50 (nM) of the samples scored
    pred,       \* predicted IC50 (nM) of the samples scored
    truev,      \* auc_score argument `true`
    scv,        \* auc_score argument `sc`
    cutoff,     \* auc_score argument `cutoff`
    trueLab,    \* `true` after (true<=cutoff).astype(int)
    scLab,      \* `sc` after (sc<=cutoff).astype(int)
    r,          \* value returned by auc_score
    training,   \* the training set: per allele, how many peptides of each length
    al,         \* list returned by get_allele_names()
    ti,         \* position in `al` of the allele the training loop is at
    pcT,        \* where the train-and-save cell is
    bp,         \* the last build_predictor call: its arguments and how it ended
    tp,         \* the last test_predictor call: its arguments and how it ended
    fitted,     \* alleles whose regressor was fitted by the training loop
    saved,      \* files written by joblib.dump
    errT,       \* exception that ended the train-and-save cell
    test_alleles, \* evalset.allele.unique()
    evalset,    \* the evaluation set: per allele, measured IC50 and each predictor's scores
    pi,         \* position in `preds` of the predictor the evaluation loop is at
    ai,         \* position in `test_alleles` of the allele it is at
    m,          \* rows collected for the current predictor
    comp,       \* result tables, one per finished predictor
    printed,    \* lines printed by the except clause
    attempted,  \* every evaluate_predictor call made: predictor, allele, outcome
    pcE         \* where the evaluation cell is

encVars == <<codes, nlf, blosum, pep, seq, fn, e, memo>>

aucVars == <<caller, ic50, pred, truev, scv, cutoff, trueLab, scLab, r>>

trainVars == <<training, al, ti, pcT, bp, tp, fitted, saved, errT>>

evalVars == <<test_alleles, evalset, pi, ai, m, comp, printed, attempted, pcE>>

vars == <<encVars, aucVars, trainVars, evalVars>>

nonEncVars == <<aucVars, trainVars, evalVars>>

nonAucVars == <<encVars, trainVars, evalVars>>

nonTrainVars == <<encVars, aucVars, evalVars>>

nonEvalVars == <<encVars, aucVars, trainVars>>

--------------------------------------------------------------------------
(* Bounds *)

\* longest peptide drawn as an encoder argument (besides the 9-mer `pep`)
MaxLen == 2

--------------------------------------------------------------------------
(* Letters and their alphabetical order *)

AlphaOrder ==
    <<"A","B","C","D","E","F","G","H","I","J","K","L","M",
      "N","O","P","Q","R","S","T","U","V","W","X","Y","Z">>

RankOf ==
    [ c \in { AlphaOrder[i] : i \in DOMAIN AlphaOrder } |->
        CHOOSE i \in DOMAIN AlphaOrder : AlphaOrder[i] = c ]

Rank(c) == RankOf[c]

SetOf(s) == { s[i] : i \in DOMAIN s }

Reverse(s) == [ i \in 1..Len(s) |-> s[Len(s) + 1 - i] ]

\* the labels of S in alphabetical order
RECURSIVE SortLabels(_)
SortLabels(S) ==
    IF S = {} THEN <<>>
    ELSE LET least == CHOOSE x \in S : \A y \in S : Rank(x) <= Rank(y)
         IN  <<least>> \o SortLabels(S \ {least})

\* position (from 1) of label c in the list cols
IndexOf(cols, c) == CHOOSE j \in DOMAIN cols : cols[j] = c

--------------------------------------------------------------------------
(* The notebook's globals *)

codes0 ==
    <<"A","C","D","E","F","G","H","I","K","L",
      "M","N","P","Q","R","S","T","V","W","Y">>

pep0 == <<"A","L","D","F","E","Q","E","M","T">>

\* "There are 19 transformed features"
NlfWidth == 19

\* "This produces 21x9 matrix"
BlosumWidth == 21

\* The tables are external data (NLF.csv, ep.blosum62).  Each cell is
\* represented by a number that identifies it: row k of the column of
\* amino acid c.
nlf0 == [ c \in SetOf(codes0) |-> [ k \in 1..NlfWidth |-> 100 * Rank(c) + k ] ]

blosum0 == [ c \in SetOf(codes0) |-> [ k \in 1..BlosumWidth |-> 100 * Rank(c) + k ] ]

--------------------------------------------------------------------------
(* pandas / numpy operations used by the encoders.  A DataFrame is a      *)
(* record [columns, values]: the column labels and the rows.              *)

\* list(set): the iteration order of a Python set of strings is not
\* specified (string hashes are salted per process)
SetOrders == {"asc", "desc"}

ListOfSet(S, ord) ==
    IF ord = "asc" THEN SortLabels(S) ELSE Reverse(SortLabels(S))

\* pd.DataFrame(np.zeros((n, len(o)), dtype=int), columns=o)
Zeros(n, o) ==
    [ columns |-> o,
      values  |-> [ i \in 1..n |-> [ j \in 1..Len(o) |-> 0 ] ] ]

\* s[0].str.get_dummies(sep=','): one indicator column per distinct token,
\* columns in sorted order
GetDummies(s) ==
    LET cols == SortLabels(SetOf(s))
    IN  [ columns |-> cols,
          values  |-> [ i \in 1..Len(s) |->
                          [ j \in 1..Len(cols) |->
                              IF s[i] = cols[j] THEN 1 ELSE 0 ] ] ]

\* a.join(x): same row index, the columns of x after those of a
Join(a, x) ==
    [ columns |-> a.columns \o x.columns,
      values  |-> [ i \in 1..Len(a.values) |-> a.values[i] \o x.values[i] ] ]

\* the mutant of SortIndexAxis1: the sort is left out
SortIndexAxis1_Skipped(a) == a

\* a.sort_index(axis=1): columns reordered by label
SortIndexAxis1(a) ==
    LET cols == SortLabels(SetOf(a.columns))
    IN  [ columns |-> cols,
          values  |-> [ i \in 1..Len(a.values) |->
                          [ j \in 1..Len(cols) |->
                              a.values[i][IndexOf(a.columns, cols[j])] ] ] ]

\* pd.DataFrame([t[i] for i in seq]).reset_index(drop=True): one row per
\* position, the row being the table column of that amino acid
FrameOfColumns(t, s) ==
    [ columns |-> [ k \in 1..Len(t[s[1]]) |-> k ],
      values  |-> [ i \in 1..Len(s) |-> t[s[i]] ] ]

\* the mutant of Flatten: column-major order (order='F')
Flatten_ColumnMajor(v) ==
    LET n == Len(v)
        w == Len(v[1])
    IN  [ k \in 1..(n * w) |-> v[((k - 1) % n) + 1][((k - 1) \div n) + 1] ]

\* ndarray.flatten(): the rows one after the other
Flatten(v) ==
    LET n == Len(v)
        w == Len(v[1])
    IN  [ k \in 1..(n * w) |-> v[((k - 1) \div w) + 1][((k - 1) % w) + 1] ]

\* what a Python function returned: an array, or a bound method object
NdArray(d) == [ kind |-> "ndarray", data |-> d ]

BoundMethod(name, self) == [ kind |-> "builtin_method", name |-> name, data |-> self ]

--------------------------------------------------------------------------
(* The encoders *)

one_hot_encode(s, ord) ==
    LET o  == ListOfSet(SetOf(codes) \ SetOf(s), ord)
        x  == Zeros(Len(s), o)
        a  == GetDummies(s)
        a2 == Join(a, x)
        a3 == SortIndexAxis1(a2)
    IN  NdArray(Flatten(a3.values))

\* `e = x.values.flatten` : the method is not called
nlf_encode(s) ==
    LET x == FrameOfColumns(nlf, s)
    IN  BoundMethod("flatten", x.values)

blosum_encode(s) ==
    LET x == FrameOfColumns(blosum, s)
    IN  NdArray(Flatten(x.values))

--------------------------------------------------------------------------
(* SpecEnc: calls of the encoders *)

\* the state after the three encoder cells have run: each encoder was
\* called on pep, blosum_encode last
EncCellsRun ==
    /\ codes = codes0
    /\ nlf = nlf0
    /\ blosum = blosum0
    /\ pep = pep0
    /\ seq = pep0
    /\ fn = "blosum_encode"
    /\ e = blosum_encode(pep0)
    /\ \E ord \in SetOrders :
         memo = [ one_hot_encode |-> one_hot_encode(pep0, ord),
                  nlf_encode     |-> nlf_encode(pep0),
                  blosum_encode  |-> blosum_encode(pep0) ]

\* the caller passes the next argument: one more residue, a new peptide,
\* or the sample peptide again
IdleEnc ==
    /\ codes = <<>>
    /\ nlf = <<>>
    /\ blosum = <<>>
    /\ pep = <<>>
    /\ seq = <<>>
    /\ fn = "none"
    /\ e = [ kind |-> "none", data |-> <<>> ]
    /\ memo = <<>>

\* cutoff=None, or a number
NoCutoff == [ given |-> FALSE, value |-> 0 ]

Cutoff(x) == [ given |-> TRUE, value |-> x ]

IdleAuc ==
    /\ caller = "none"
    /\ ic50 = <<>> /\ pred = <<>>
    /\ truev = <<>> /\ scv = <<>>
    /\ cutoff = NoCutoff
    /\ trueLab = <<>> /\ scLab = <<>>
    /\ r = [ nan |-> FALSE, num |-> 0, den |-> 1 ]

NoCall == [ allele |-> 0, encoder |-> "none", len |-> 0,
            ret |-> "none", fit |-> FALSE, raised |-> "none" ]

NoTest == [ allele |-> 0, encoder |-> "none", lengths |-> {},
            fit |-> FALSE, raised |-> "none" ]

IdleTrain ==
    /\ training = <<>>
    /\ al = <<>>
    /\ ti = 1
    /\ pcT = "idle"
    /\ bp = NoCall
    /\ tp = NoTest
    /\ fitted = {}
    /\ saved = {}
    /\ errT = "none"

IdleEval ==
    /\ test_alleles = <<>>
    /\ evalset = <<>>
    /\ pi = 1
    /\ ai = 1
    /\ m = <<>>
    /\ comp = <<>>
    /\ printed = <<>>
    /\ attempted = <<>>
    /\ pcE = "idle"

InitEnc == EncCellsRun /\ IdleAuc /\ IdleTrain /\ IdleEval

NextArgs ==
    {pep} \cup { <<c>> : c \in SetOf(codes0) }
          \cup { Append(seq, c) : c \in IF Len(seq) < MaxLen THEN SetOf(codes0) ELSE {} }

Call(s) ==
    /\ seq' = s
    /\ fn' = "none"
    /\ e' = [ kind |-> "none", data |-> <<>> ]
    /\ UNCHANGED <<codes, nlf, blosum, pep, memo, nonEncVars>>

OneHotEncode ==
    /\ \E ord \in SetOrders : e' = one_hot_encode(seq, ord)
    /\ fn' = "one_hot_encode"
    /\ UNCHANGED <<codes, nlf, blosum, pep, seq, memo, nonEncVars>>

NlfEncode ==
    /\ e' = nlf_encode(seq)
    /\ fn' = "nlf_encode"
    /\ UNCHANGED <<codes, nlf, blosum, pep, seq, memo, nonEncVars>>

BlosumEncode ==
    /\ e' = blosum_encode(seq)
    /\ fn' = "blosum_encode"
    /\ UNCHANGED <<codes, nlf, blosum, pep, seq, memo, nonEncVars>>

\* np.random.randint(20): an integer of 0..19
RandInt == 0..19

\* streams of n successive draws of the generator: constant at either end
\* of the range, and two that vary from draw to draw
RandomStreams(n) ==
    { [ i \in 1..n |-> (step * i + first) % 20 ] : step \in {0, 7}, first \in {0, 19} }

\* def random_encode(p): return [np.random.randint(20) for i in pep]
\* (the comprehension runs over the global pep; p is not read)
random_encode(p, draws) ==
    [ kind |-> "list", data |-> [ i \in 1..Len(pep) |-> draws[i] ] ]

RandomEncode ==
    /\ \E draws \in RandomStreams(Len(pep)) : e' = random_encode(seq, draws)
    /\ fn' = "random_encode"
    /\ UNCHANGED <<codes, nlf, blosum, pep, seq, memo, nonEncVars>>

NextEnc ==
    \/ \E s \in NextArgs : Call(s)
    \/ OneHotEncode
    \/ NlfEncode
    \/ BlosumEncode
    \/ RandomEncode

SpecEnc == InitEnc /\ [][NextEnc]_vars

--------------------------------------------------------------------------
(* Claims about the encoders *)

\* index (from 0) of amino acid c in the alphabetically sorted alphabet
AlphaIndexOf ==
    [ c \in SetOf(codes0) |-> Cardinality({ d \in SetOf(codes0) : Rank(d) < Rank(c) }) ]

AlphaIndex(c) == AlphaIndexOf[c]

\* C1: one_hot_encode(seq) is a flat vector of 20*n entries; in block i the
\* single 1 is at the offset of seq[i] in the sorted alphabet, the other
\* nineteen entries are 0 (also with repeated letters).
C1_OneHotBlocks ==
    fn = "one_hot_encode" =>
        /\ e.kind = "ndarray"
        /\ Len(e.data) = 20 * Len(seq)
        /\ \A i \in 0..(Len(seq) - 1) : \A j \in 0..19 :
              e.data[20 * i + j + 1] = IF j = AlphaIndex(seq[i + 1]) THEN 1 ELSE 0

C1_Witness ==
    /\ fn = "one_hot_encode"
    /\ seq = <<"Y", "Y">>
    /\ e.data[20] = 1 /\ e.data[40] = 1

\* C2: nlf_encode(seq) is a flat numeric vector of 19*n values, block i
\* being the NLF column of seq[i].
C2_NlfVector ==
    fn = "nlf_encode" =>
        /\ e.kind = "ndarray"
        /\ Len(e.data) = NlfWidth * Len(seq)
        /\ \A i \in 0..(Len(seq) - 1) : \A j \in 1..NlfWidth :
              e.data[NlfWidth * i + j] = nlf[seq[i + 1]][j]

\* C3: blosum_encode(seq) is a flat vector of 21*n values, block i being
\* the BLOSUM62 column of seq[i]; equal amino acids give equal blocks.
C3_BlosumBlocks ==
    fn = "blosum_encode" =>
        /\ e.kind = "ndarray"
        /\ Len(e.data) = 21 * Len(seq)
        /\ \A i \in 0..(Len(seq) - 1) : \A j \in 1..21 :
              e.data[21 * i + j] = blosum[seq[i + 1]][j]
        /\ \A i1, i2 \in 0..(Len(seq) - 1) :
              seq[i1 + 1] = seq[i2 + 1] =>
                  \A j \in 1..21 : e.data[21 * i1 + j] = e.data[21 * i2 + j]

C3_Witness ==
    /\ fn = "blosum_encode"
    /\ seq = <<"W", "A">>
    /\ Len(e.data) = 42
    /\ e.data[1] = blosum["W"][1] /\ e.data[22] = blosum["A"][1]

\* C10: each encoder returns, for the same peptide, the same vector as
\* before, whatever was encoded in between, and leaves codes, nlf and
\* blosum as they were.
C10_Deterministic ==
    /\ codes = codes0 /\ nlf = nlf0 /\ blosum = blosum0
    /\ (seq = pep /\ fn \in DOMAIN memo) =>
          /\ e.kind = "ndarray"
          /\ memo[fn].kind = "ndarray"
          /\ e.data = memo[fn].data

\* C13: for every peptide p, random_encode(p) returns a list of one integer
\* of 0..19 per position of p: its length is the length of the argument.
C13_RandomLength ==
    fn = "random_encode" =>
        /\ e.kind = "list"
        /\ Len(e.data) = Len(seq)
        /\ \A i \in DOMAIN e.data : e.data[i] \in RandInt


--------------------------------------------------------------------------
(* The linearized affinity target, in millionths *)

One == 1000000

\* IC50 values (nM) the samples are drawn from
IC50Grid == {1, 32, 499, 500, 501, 20000, 50000}

\* predicted IC50 values (nM) the predictions are drawn from
PredGrid == {100, 500, 20000}

\* math.log(x) in millionths, rounded to the nearest
LnMicro ==
    [ x \in IC50Grid \cup PredGrid |->
        CASE x = 1     -> 0
          [] x = 32    -> 3465736
          [] x = 100   -> 4605170
          [] x = 499   -> 6212606
          [] x = 500   -> 6214608
          [] x = 501   -> 6216606
          [] x = 20000 -> 9903488
          [] x = 50000 -> 10819778 ]

\* floor(a * 10^digits / b) for 0 <= a <= b, by long division
RECURSIVE RatioDigits(_, _, _, _)
RatioDigits(a, b, digits, acc) ==
    IF digits = 0 THEN acc
    ELSE RatioDigits((a * 10) % b, b, digits - 1, acc * 10 + ((a * 10) \div b))

RatioMicro(a, b) == IF a = b THEN One ELSE RatioDigits(a, b, 6, 0)

\* the mutant of Log50k: the "1 -" is left out
Log50k_NoComplement(x) == RatioMicro(LnMicro[x], LnMicro[50000])

\* log50k = 1 - log(ic50) / log(50000)
Log50k(x) == One - RatioMicro(LnMicro[x], LnMicro[50000])

--------------------------------------------------------------------------
(* auc_score *)

\* the mutant of BinarizeTrue: a strict comparison
BinarizeTrue_Strict(v, c) == [ i \in DOMAIN v |-> IF v[i] < c THEN 1 ELSE 0 ]

\* true = (true<=cutoff).astype(int)
BinarizeTrue(v, c) == [ i \in DOMAIN v |-> IF v[i] <= c THEN 1 ELSE 0 ]

\* the mutant of BinarizeScore: the comparison the other way round
BinarizeScore_Reversed(v, c) == [ i \in DOMAIN v |-> IF v[i] >= c THEN 1 ELSE 0 ]

\* sc = (sc<=cutoff).astype(int)
BinarizeScore(v, c) == [ i \in DOMAIN v |-> IF v[i] <= c THEN 1 ELSE 0 ]

\* the numbers of S in decreasing order
RECURSIVE SortDesc(_)
SortDesc(S) ==
    IF S = {} THEN <<>>
    ELSE LET top == CHOOSE x \in S : \A y \in S : x >= y
         IN  <<top>> \o SortDesc(S \ {top})

\* metrics.roc_curve(true, sc, pos_label=1): one point per distinct score,
\* scores decreasing, after the point (0, 0); the counts of false and of
\* true positives at each threshold, and the totals they are divided by
RocCurve(y, s) ==
    LET th  == SortDesc(SetOf(s))
        Pos == { i \in DOMAIN y : y[i] = 1 }
        Neg == DOMAIN y \ Pos
    IN  [ fps |-> <<0>> \o [ k \in 1..Len(th) |->
                     Cardinality({ i \in Neg : s[i] >= th[k] }) ],
          tps |-> <<0>> \o [ k \in 1..Len(th) |->
                     Cardinality({ i \in Pos : s[i] >= th[k] }) ],
          N   |-> Cardinality(Neg),
          P   |-> Cardinality(Pos) ]

RECURSIVE TrapezoidSum(_, _, _)
TrapezoidSum(x, y, k) ==
    IF k < 2 THEN 0
    ELSE (x[k] - x[k - 1]) * (y[k] + y[k - 1]) + TrapezoidSum(x, y, k - 1)

\* metrics.auc(fpr, tpr): the trapezoidal rule, as the fraction num/den;
\* nan when a class is missing (fpr or tpr is then nan)
Auc(roc) ==
    IF roc.N = 0 \/ roc.P = 0
    THEN [ nan |-> TRUE, num |-> 0, den |-> 1 ]
    ELSE [ nan |-> FALSE,
           num |-> TrapezoidSum(roc.fps, roc.tps, Len(roc.fps)),
           den |-> 2 * roc.N * roc.P ]

\* labels auc_score hands to roc_curve
\* if cutoff!=None: ...
AucTrue(t, c) == IF c.given THEN BinarizeTrue(t, c.value) ELSE t

AucScoreArg(s, c) == IF c.given THEN BinarizeScore(s, c.value) ELSE s

auc_score(t, s, c) == Auc(RocCurve(AucTrue(t, c), AucScoreArg(s, c)))

--------------------------------------------------------------------------
(* SpecAuc: the two places that score predictions *)

\* most samples in a scored set
MaxSamples == 3

\* evaluate_predictor: cutoff=500
EvalCutoff == 500

\* test_predictor: cutoff=.426, in millionths
TestCutoff == 426000

InitAuc ==
    /\ IdleEnc
    /\ IdleTrain
    /\ IdleEval
    /\ caller \in {"evaluate_predictor", "test_predictor"}
    /\ \E n \in 1..MaxSamples :
         /\ ic50 \in [ 1..n -> IC50Grid ]
         /\ pred \in [ 1..n -> PredGrid ]
    /\ truev = <<>> /\ scv = <<>>
    /\ cutoff = NoCutoff
    /\ trueLab = <<>> /\ scLab = <<>>
    /\ r = [ nan |-> FALSE, num |-> 0, den |-> 1 ]

Score(t, s, c) ==
    /\ truev' = t
    /\ scv' = s
    /\ cutoff' = c
    /\ trueLab' = AucTrue(t, c)
    /\ scLab' = AucScoreArg(s, c)
    /\ r' = auc_score(t, s, c)

\* auc = auc_score(x.ic50, x.score, cutoff=500)
EvaluatePredictorScore ==
    /\ caller = "evaluate_predictor"
    /\ truev = <<>>
    /\ Score(ic50, pred, Cutoff(EvalCutoff))
    /\ UNCHANGED <<caller, ic50, pred, nonAucVars>>

\* auc = ep.auc_score(y_test, sc, cutoff=.426), y_test and sc on the
\* log50k scale
TestPredictorScore ==
    /\ caller = "test_predictor"
    /\ truev = <<>>
    /\ Score([ i \in DOMAIN ic50 |-> Log50k(ic50[i]) ],
             [ i \in DOMAIN pred |-> Log50k(pred[i]) ],
             Cutoff(TestCutoff))
    /\ UNCHANGED <<caller, ic50, pred, nonAucVars>>

NextAuc ==
    \/ EvaluatePredictorScore
    \/ TestPredictorScore

SpecAuc == InitAuc /\ [][NextAuc]_vars

--------------------------------------------------------------------------
(* Claims about the scoring *)

Scored == truev # <<>>

\* C7: auc_score(true, sc, cutoff) is exactly 1.0 when both classes occur
\* and, for every sample, sc <= cutoff holds iff true <= cutoff holds.
C7_PerfectSeparation ==
    ( /\ Scored
      /\ \E i \in DOMAIN truev : truev[i] <= cutoff.value
      /\ \E i \in DOMAIN truev : ~ (truev[i] <= cutoff.value)
      /\ \A i \in DOMAIN truev : (scv[i] <= cutoff.value) <=> (truev[i] <= cutoff.value) )
    => ( ~ r.nan /\ r.num = r.den )

C7_Witness ==
    /\ Scored
    /\ caller = "evaluate_predictor"
    /\ ic50 = <<32, 20000, 500>>
    /\ pred = <<100, 20000, 500>>
    /\ r.num = r.den

\* in evaluate_predictor label 1 means IC50 <= 500 nM, for the measured
\* and for the predicted value alike
EvalLabelsAt500 ==
    (Scored /\ caller = "evaluate_predictor") =>
        /\ cutoff = Cutoff(500)
        /\ \A i \in DOMAIN ic50 :
              /\ (trueLab[i] = 1) <=> (ic50[i] <= 500)
              /\ (scLab[i] = 1) <=> (pred[i] <= 500)

\* C8 (as claimed): evaluate_predictor labels a peptide 1 iff its IC50 is
\* at most 500 nM, measured and predicted alike; and test_predictor's
\* cutoff is 1 - log(500)/log(50000).
C8_SameThreshold ==
    /\ EvalLabelsAt500
    /\ (Scored /\ caller = "test_predictor") => cutoff = Cutoff(Log50k(500))

\* x rounded to three decimals (x in millionths)
Round3(x) == ((x + 500) \div 1000) * 1000

\* C8 (amended): evaluate_predictor labels a peptide 1 iff its IC50 is at
\* most 500 nM, measured and predicted alike; and test_predictor's cutoff
\* is 1 - log(500)/log(50000) rounded to three decimals.
C8_RoundedThreshold ==
    /\ EvalLabelsAt500
    /\ (Scored /\ caller = "test_predictor") => cutoff = Cutoff(Round3(Log50k(500)))

C8_Witness ==
    /\ Scored
    /\ caller = "test_predictor"
    /\ cutoff = Cutoff(426000)
    /\ \E i \in DOMAIN ic50 : ic50[i] = 499 /\ truev[i] <= cutoff.value

\* C9: log50k is 0 at IC50 = 50000 and 1 at IC50 = 1, lies in [0, 1] and is
\* strictly decreasing in IC50.
C9_Linearization ==
    (Scored /\ caller = "test_predictor") =>
        /\ \A i \in DOMAIN ic50 :
              /\ ic50[i] = 50000 => truev[i] = 0
              /\ ic50[i] = 1 => truev[i] = One
              /\ 0 <= truev[i] /\ truev[i] <= One
        /\ \A i, j \in DOMAIN ic50 : ic50[i] < ic50[j] => truev[i] > truev[j]

C9_Witness ==
    /\ Scored
    /\ caller = "test_predictor"
    /\ ic50 = <<1, 20000, 50000>>
    /\ truev = <<1000000, 84687, 0>>

--------------------------------------------------------------------------
(* build_predictor and the train-and-save loop *)

\* most alleles in the training set
NumAlleles == 2

Alleles == 1..NumAlleles

\* the file name of allele a: a+'.joblib' under 'models'
FileName(a) == <<"models", a, ".joblib">>

\* names bound in the notebook's namespace by its import statements
Imported ==
    { "os", "sys", "math", "np", "pd", "mpl", "plt", "sns", "ep",
      "display", "HTML", "Image", "metrics", "train_test_split",
      "cross_val_score", "ShuffleSplit", "MLPRegressor" }

\* if len(data)<200
MinSamples == 200

\* a =a[a>200]
MinNineMers == 200

\* how many values the encoder yields for a peptide of length n; 0 stands
\* for a value that is no numeric vector (nlf_encode returns a method)
RowWidth(enc, n) ==
    CASE enc = "blosum_encode"  -> BlosumWidth * n
      [] enc = "one_hot_encode" -> 20 * n
      [] enc = "nlf_encode"     -> 0
      [] enc = "random_encode"  -> Len(pep0)

\* lengths of the peptides of the training set of allele a
LengthsOf(a) == { n \in DOMAIN training[a] : training[a][n] > 0 }

\* ep.get_training_set(allele): every peptide of the allele, any length
LenData(a) ==
    LET RECURSIVE Sum(_)
        Sum(S) == IF S = {} THEN 0
                  ELSE LET n == CHOOSE x \in S : TRUE
                       IN  training[a][n] + Sum(S \ {n})
    IN  Sum(DOMAIN training[a])

\* X = data.peptide.apply(lambda x: pd.Series(encoder(x)),1): one row per
\* peptide; rows of unequal width are padded with NaN.  reg.fit(X,y)
\* rejects a matrix that holds NaN or non-numeric cells (ValueError).
FitRaises(a, enc) ==
    \/ \E n \in LengthsOf(a) : RowWidth(enc, n) = 0
    \/ \E n1, n2 \in LengthsOf(a) : RowWidth(enc, n1) # RowWidth(enc, n2)

build_predictor(a, enc) ==
    LET call == [ allele |-> a, encoder |-> enc, len |-> LenData(a),
                  ret |-> "none", fit |-> FALSE, raised |-> "none" ]
    IN  IF LenData(a) < MinSamples
        THEN [ call EXCEPT !.ret = "None" ]
        ELSE IF FitRaises(a, enc)
             THEN [ call EXCEPT !.raised = "ValueError" ]
             ELSE [ call EXCEPT !.ret = "MLPRegressor", !.fit = TRUE ]

\* d.allele.value_counts() of the 9-mers, a[a>200], list(a.index): the
\* alleles with more than 200 9-mers, most frequent first
RECURSIVE ByCount(_)
ByCount(S) ==
    IF S = {} THEN <<>>
    ELSE LET top == CHOOSE x \in S : \A y \in S :
                      \/ training[x][9] > training[y][9]
                      \/ training[x][9] = training[y][9] /\ x <= y
         IN  <<top>> \o ByCount(S \ {top})

get_allele_names == ByCount({ a \in Alleles : training[a][9] > MinNineMers })

\* numbers of peptides of one length an allele may have
Counts9 == {0, 199, 200, 201, 250}

Counts10 == {0, 1}

\* the state before the train-and-save cell runs
InitTrain ==
    /\ IdleEnc
    /\ IdleAuc
    /\ IdleEval
    /\ training \in [ Alleles -> { [ n \in {9, 10} |-> IF n = 9 THEN c9 ELSE c10 ] :
                                      c9 \in Counts9, c10 \in Counts10 } ]
    /\ al = <<>>
    /\ ti = 1
    /\ pcT = "start"
    /\ bp = NoCall
    /\ tp = NoTest
    /\ fitted = {}
    /\ saved = {}
    /\ errT = "none"

\* df = ep.get_training_set(allele, length=9): the 9-mers of the allele
TrainingLengths9(a) == LengthsOf(a) \cap {9}

\* test_predictor(allele, encoder, ax): the 9-mers are encoded, split
\* (train_test_split rejects an empty set) and fitted
test_predictor(a, enc) ==
    LET lens == TrainingLengths9(a)
        call == [ allele |-> a, encoder |-> enc, lengths |-> lens,
                  fit |-> FALSE, raised |-> "none" ]
    IN  IF lens = {}
        THEN [ call EXCEPT !.raised = "ValueError" ]
        ELSE IF \/ \E n \in lens : RowWidth(enc, n) = 0
                \/ \E n1, n2 \in lens : RowWidth(enc, n1) # RowWidth(enc, n2)
             THEN [ call EXCEPT !.raised = "ValueError" ]
             ELSE [ call EXCEPT !.fit = TRUE ]

\* encs=[blosum_encode,nlf_encode,one_hot_encode,random_encode]
encs == <<"blosum_encode", "nlf_encode", "one_hot_encode", "random_encode">>

\* test_predictor(allele,enc,ax=axs[i])
TestPredictorCall(a, enc) ==
    /\ pcT = "start"
    /\ tp' = test_predictor(a, enc)
    /\ UNCHANGED <<training, al, ti, pcT, bp, fitted, saved, errT, nonTrainVars>>

\* a call of build_predictor on its own
BuildPredictorCall(a, enc) ==
    /\ pcT = "start"
    /\ bp' = build_predictor(a, enc)
    /\ UNCHANGED <<training, al, ti, pcT, tp, fitted, saved, errT, nonTrainVars>>

\* al = get_allele_names(); path = 'models'
GetAlleleNames ==
    /\ pcT = "start"
    /\ al' = get_allele_names
    /\ ti' = 1
    /\ pcT' = "loop"
    /\ UNCHANGED <<training, bp, tp, fitted, saved, errT, nonTrainVars>>

\* one pass of `for a in al:` : build the predictor and dump it
TrainStep ==
    /\ pcT = "loop"
    /\ ti <= Len(al)
    /\ LET a    == al[ti]
           call == build_predictor(a, "blosum_encode")
       IN  /\ bp' = call
           /\ IF call.raised # "none"
              THEN /\ pcT' = "raised"
                   /\ errT' = call.raised
                   /\ UNCHANGED <<ti, fitted, saved>>
              ELSE IF call.ret = "None"
              THEN /\ ti' = ti + 1
                   /\ UNCHANGED <<pcT, errT, fitted, saved>>
              ELSE IF "joblib" \in Imported
              THEN /\ saved' = saved \cup {FileName(a)}
                   /\ fitted' = fitted \cup {a}
                   /\ ti' = ti + 1
                   /\ UNCHANGED <<pcT, errT>>
              ELSE /\ fitted' = fitted \cup {a}
                   /\ pcT' = "raised"
                   /\ errT' = "NameError"
                   /\ UNCHANGED <<ti, saved>>
    /\ UNCHANGED <<training, al, tp, nonTrainVars>>

\* the loop has gone through `al`
TrainEnd ==
    /\ pcT = "loop"
    /\ ti > Len(al)
    /\ pcT' = "done"
    /\ UNCHANGED <<training, al, ti, bp, tp, fitted, saved, errT, nonTrainVars>>

NextTrain ==
    \/ \E a \in Alleles, enc \in {"blosum_encode", "one_hot_encode", "nlf_encode"} :
          BuildPredictorCall(a, enc)
    \/ \E a \in Alleles, enc \in SetOf(encs) : TestPredictorCall(a, enc)
    \/ GetAlleleNames
    \/ TrainStep
    \/ TrainEnd

SpecTrain == InitTrain /\ [][NextTrain]_vars

--------------------------------------------------------------------------
(* Claims about training *)

\* C5: build_predictor returns None, fitting nothing and raising nothing,
\* when the allele has fewer than 200 samples, and a fitted regressor when
\* it has 200 or more; a skipped allele does not end the training loop.
C5_Threshold ==
    /\ bp.encoder # "none" =>
          /\ bp.len < 200 =>
                bp.ret = "None" /\ ~ bp.fit /\ bp.raised = "none"
          /\ bp.len >= 200 =>
                bp.ret = "MLPRegressor" /\ bp.fit /\ bp.raised = "none"
    /\ (pcT \in {"loop", "done", "raised"} /\ bp.ret = "None") => pcT # "raised"

\* the train-and-save cell has ended
TrainOver == pcT \in {"done", "raised"}

\* C6: after the train-and-save loop, the files under 'models' are exactly
\* '<allele>.joblib' for the alleles with more than 200 training samples;
\* the loop reaches the save step for every allele of get_allele_names and
\* the save step completes.
C6_OneFilePerAllele ==
    TrainOver =>
        /\ pcT = "done"
        /\ saved = { FileName(a) : a \in { x \in Alleles : training[x][9] > 200 } }
        /\ \A i \in DOMAIN al : al[i] \in fitted

\* C11: in every call that fits a regressor (test_predictor and
\* build_predictor) the peptides encoded into the training matrix all
\* have length 9, so the rows handed to fit all have the same width.
C11_LengthConsistency ==
    /\ (tp.encoder # "none" /\ tp.lengths # {}) =>
          /\ tp.lengths = {9}
          /\ \A n1, n2 \in tp.lengths :
                RowWidth(tp.encoder, n1) = RowWidth(tp.encoder, n2)
    /\ (bp.encoder # "none" /\ bp.len >= MinSamples) =>
          /\ LengthsOf(bp.allele) = {9}
          /\ \A n1, n2 \in LengthsOf(bp.allele) :
                RowWidth(bp.encoder, n1) = RowWidth(bp.encoder, n2)

--------------------------------------------------------------------------
(* evaluate_predictor and the batch evaluation loop *)

\* most alleles in the evaluation set
NumTestAlleles == 2

\* P.name of the three predictors of `preds`, in order
preds == <<"basicmhc1", "netmhcpan", "mhcflurry">>

\* evaluation data an allele may have: measured IC50 of its peptides and
\* the IC50 each predictor returns for them
EvalSets ==
    { [ ic50 |-> <<32, 20000>>,
        score |-> [ basicmhc1 |-> <<500, 100>>,
                    netmhcpan |-> <<100, 20000>>,
                    mhcflurry |-> <<100, 500>> ] ],
      [ ic50 |-> <<499, 500, 501>>,
        score |-> [ basicmhc1 |-> <<20000, 100, 100>>,
                    netmhcpan |-> <<100, 500, 20000>>,
                    mhcflurry |-> <<100, 100, 100>> ] ] }

\* exceptions evaluate_predictor may raise (a predictor that cannot be
\* run, an allele it does not know); both derive from Exception
Raisable == {"KeyError", "ValueError"}

\* the mutant of Caught: the clause names one exception class only
Caught_KeyErrorOnly(exc) == exc = "KeyError"

\* except Exception as e
Caught(exc) == exc \in {"KeyError", "ValueError"}

\* evaluate_predictor(P, allele) when nothing raises: (auc, data)
\* x = P.get_scores(data); auc = ep.auc_score(x.ic50, x.score, cutoff=500),
\* tabulated for the datasets an allele may have
EvalAuc ==
    [ data \in EvalSets |->
        [ P \in SetOf(preds) |->
            LET x == [ ic50 |-> data.ic50, score |-> data.score[P] ]
            IN  auc_score(x.ic50, x.score, Cutoff(EvalCutoff)) ] ]

evaluate_predictor(P, a) ==
    LET data == evalset[a]
    IN  [ auc |-> EvalAuc[data][P], data |-> data ]

\* the loops step to the next allele, or leave the inner loop
Advance ==
    /\ ai' = ai + 1
    /\ pcE' = IF ai = Len(test_alleles) THEN "table" ELSE "loop"

\* the state when the evaluation cell starts its loops
InitEval ==
    /\ IdleEnc
    /\ IdleAuc
    /\ IdleTrain
    /\ \E n \in 1..NumTestAlleles :
         /\ test_alleles = [ i \in 1..n |-> i ]
         /\ evalset \in [ 1..n -> EvalSets ]
    /\ pi = 1
    /\ ai = 1
    /\ m = <<>>
    /\ comp = <<>>
    /\ printed = <<>>
    /\ attempted = <<>>
    /\ pcE = "loop"

\* try: auc,df = evaluate_predictor(P, a); m.append((a,auc,len(df)))
EvalReturns ==
    /\ pcE = "loop"
    /\ LET P   == preds[pi]
           a   == test_alleles[ai]
           res == evaluate_predictor(P, a)
       IN  /\ m' = Append(m, <<a, res.auc, Len(res.data.ic50)>>)
           /\ attempted' = Append(attempted, <<P, a, "returned">>)
    /\ Advance
    /\ UNCHANGED <<test_alleles, evalset, pi, comp, printed, nonEvalVars>>

\* evaluate_predictor raises exc: except Exception as e: print (a,e)
EvalRaises(exc) ==
    /\ pcE = "loop"
    /\ LET P == preds[pi]
           a == test_alleles[ai]
       IN  /\ attempted' = Append(attempted, <<P, a, exc>>)
           /\ IF Caught(exc)
              THEN /\ printed' = Append(printed, <<a, exc>>)
                   /\ Advance
              ELSE /\ pcE' = "raised"
                   /\ UNCHANGED <<printed, ai>>
    /\ UNCHANGED <<test_alleles, evalset, pi, m, comp, nonEvalVars>>

\* the mutant of AppendTable: `m=[]` is not executed for the next predictor
AppendTable_RowsKept ==
    /\ pcE = "table"
    /\ comp' = Append(comp, [ i \in DOMAIN m |-> m[i] \o <<preds[pi]>> ])
    /\ m' = m
    /\ ai' = 1
    /\ pi' = pi + 1
    /\ pcE' = IF pi = Len(preds) THEN "done" ELSE "loop"
    /\ UNCHANGED <<test_alleles, evalset, printed, attempted, nonEvalVars>>

\* m=pd.DataFrame(m,...); m['name'] = P.name; comp.append(m); next P
AppendTable ==
    /\ pcE = "table"
    /\ comp' = Append(comp, [ i \in DOMAIN m |-> m[i] \o <<preds[pi]>> ])
    /\ m' = <<>>
    /\ ai' = 1
    /\ pi' = pi + 1
    /\ pcE' = IF pi = Len(preds) THEN "done" ELSE "loop"
    /\ UNCHANGED <<test_alleles, evalset, printed, attempted, nonEvalVars>>

NextEval ==
    \/ EvalReturns
    \/ \E exc \in Raisable : EvalRaises(exc)
    \/ AppendTable

SpecEval == InitEval /\ [][NextEval]_vars

\* the cell runs its statements one after the other until the loops end
SpecEvalFair == SpecEval /\ WF_vars(NextEval)

--------------------------------------------------------------------------
(* Claims about the evaluation loop *)

\* the rows of predictor k so far
RowsOf(k) == IF k <= Len(comp) THEN comp[k] ELSE IF k = pi THEN m ELSE <<>>

PredIndex(P) == CHOOSE k \in DOMAIN preds : preds[k] = P

\* C4: an exception raised for a (predictor, allele) pair is caught and
\* logged, the allele gets no row in that predictor's table, and the loops
\* go on: every later allele and predictor is evaluated and a table is
\* appended to comp for every predictor.
C4_FailureSkipped ==
    /\ pcE # "raised"
    /\ \A i \in DOMAIN attempted :
          attempted[i][3] # "returned" =>
              /\ \E j \in DOMAIN printed :
                    printed[j] = <<attempted[i][2], attempted[i][3]>>
              /\ \A j \in DOMAIN RowsOf(PredIndex(attempted[i][1])) :
                    RowsOf(PredIndex(attempted[i][1]))[j][1] # attempted[i][2]
    /\ pcE = "done" =>
          /\ Len(comp) = Len(preds)
          /\ Len(attempted) = Len(preds) * Len(test_alleles)
          /\ \A k \in DOMAIN preds : \A a \in DOMAIN test_alleles :
                attempted[(k - 1) * Len(test_alleles) + a][1] = preds[k]
                /\ attempted[(k - 1) * Len(test_alleles) + a][2] = test_alleles[a]

C4_Witness ==
    /\ pcE = "done"
    /\ Len(test_alleles) = 2
    /\ attempted[1] = <<"basicmhc1", 1, "ValueError">>
    /\ attempted[2][3] = "returned"
    /\ Len(comp) = 3
    /\ Len(comp[1]) = 1 /\ comp[1][1][1] = 2
    /\ Len(comp[2]) = 2

\* the (predictor, allele) pairs in loop order: preds outer, alleles inner
PairAt(i) ==
    <<preds[((i - 1) \div Len(test_alleles)) + 1],
      test_alleles[((i - 1) % Len(test_alleles)) + 1]>>

\* the calls of predictor k that raised
FailuresOf(k) ==
    { i \in DOMAIN attempted :
        attempted[i][1] = preds[k] /\ attempted[i][3] # "returned" }

\* what holds when the evaluation loops have ended
EvalFinal ==
    /\ Len(attempted) = Len(preds) * Len(test_alleles)
    /\ \A i \in DOMAIN attempted :
          <<attempted[i][1], attempted[i][2]>> = PairAt(i)
    /\ Len(comp) = Len(preds)
    /\ \A k \in DOMAIN comp :
          /\ \A i \in DOMAIN comp[k] : comp[k][i][4] = preds[k]
          /\ \A i, j \in DOMAIN comp[k] :
                i < j => IndexOf(test_alleles, comp[k][i][1])
                           < IndexOf(test_alleles, comp[k][j][1])
          /\ Len(comp[k]) + Cardinality(FailuresOf(k)) = Len(test_alleles)
    /\ Len(printed) = Cardinality({ i \in DOMAIN attempted : attempted[i][3] # "returned" })

\* C12: the evaluation loops end after attempting every (predictor, allele)
\* pair exactly once, in the order of preds and of test_alleles; comp then
\* holds one table per predictor in predictor order, each with at most one
\* row per allele, rows in the order of test_alleles, and rows plus logged
\* failures number the test alleles.
C12_LoopTerminates ==
    /\ <>(pcE = "done")
    /\ [](pcE = "done" => EvalFinal)

C12_Witness ==
    /\ pcE = "done"
    /\ Len(test_alleles) = 2
    /\ attempted[3] = <<"netmhcpan", 1, "returned">>
    /\ attempted[4] = <<"netmhcpan", 2, "KeyError">>
    /\ Len(comp[2]) = 1
    /\ Len(comp[1]) = 2 /\ comp[1][1][1] = 1 /\ comp[1][2][1] = 2
    /\ Len(printed) = 1

==========================================================================
